---- MODULE Spec2Model ----
(***************************************************************************)
(* State-machine model of stereo_camera_ffplay_flexible.py: the main       *)
(* thread (startup, capture loop, termination sequence), the keyboard      *)
(* listener thread and the GPIO button callback, which share the globals   *)
(* is_recording, out and stop_event.  Every bytecode-level read or write   *)
(* of a shared global that another thread can interleave with is a step    *)
(* of its own.                                                             *)
(***************************************************************************)
EXTENDS Integers, Sequences, FiniteSets, TLC

\* ---- bounds of the model ----
MaxFrames == 2      \* capture_stereo calls explored
MaxToggles == 2     \* ToggleRecording commands (key r / record button) explored
MaxCalls == 3       \* capture_stereo() and close() calls a caller of StereoCamera makes
MaxSessions == 3    \* recording sessions a caller of toggle_recording starts

\* ---- program constants ----
RECORD_BUTTON_PIN == 17
QUIT_BUTTON_PIN == 27
BOUNCETIME == 300   \* ms, the bouncetime given to GPIO.add_event_detect

VARIABLES
    mpc,            \* position of the main thread in main()
    gpio_available, \* global gpio_available
    gpio_events,    \* GPIO edge detection registered and not yet cleaned up
    camera1,        \* StereoCamera.camera1: "None", "open", "started", "stopped"
    camera2,        \* StereoCamera.camera2
    display,        \* ffplay process + pipe: "none", "open", "closed"
    dispFrames,     \* frames written to pipe_w, in order
    is_recording,   \* global is_recording
    out,            \* global out: None (0) or the index of a VideoWriter in sinks
    stop_event,     \* global stop_event (threading.Event)
    sinks,          \* every cv2.VideoWriter constructed so far
    stitched_frame, \* main's local stitched_frame
    captured,       \* number of capture_stereo calls that returned a pair
    tpc,            \* position of the keyboard thread and of the button callback
    toggles,        \* ToggleRecording commands issued so far
    recWrites,      \* out.write calls made by the loop
    termLog,        \* steps of the finally block executed so far, in order
    arrayCalls,      \* capture_array calls made on the cameras
    window          \* per button line: callbacks accepted in its current bouncetime window

vars == <<mpc, gpio_available, gpio_events, camera1, camera2, display, dispFrames,
          is_recording, out, stop_event, sinks, stitched_frame, captured, tpc,
          toggles, recWrites, termLog,
          arrayCalls,
          window>>

None == 0
NoFrame == [id |-> 0, rec |-> FALSE]
Threads == {"kb", "btn"}
Channels == {RECORD_BUTTON_PIN, QUIT_BUTTON_PIN}

\* The state after the module is imported and before main() runs.
Init ==
    /\ mpc = "setup_gpio"
    /\ gpio_available = FALSE
    /\ gpio_events = FALSE
    /\ camera1 = "None"
    /\ camera2 = "None"
    /\ display = "none"
    /\ dispFrames = <<>>
    /\ is_recording = FALSE
    /\ out = None
    /\ stop_event = FALSE
    /\ sinks = <<>>
    /\ stitched_frame = NoFrame
    /\ captured = 0
    /\ tpc = [t \in Threads |-> IF t = "kb" THEN "unstarted" ELSE "idle"]
    /\ toggles = 0
    /\ recWrites = 0
    /\ termLog = <<>>
    /\ arrayCalls = 0
    /\ window = [ch \in Channels |-> 0]

\* ---------------------------------------------------------------------
\* Startup of main()
\* ---------------------------------------------------------------------

\* setup_gpio(): the import and the pin setup succeed, or ImportError /
\* RuntimeError is caught and the program falls back to the keyboard.
\* outcomes: the results the platform can give (both, or only failure on a
\* machine without RPi.GPIO).
SetupGpio(outcomes) ==
    /\ mpc = "setup_gpio"
    /\ \E ok \in outcomes : gpio_available' = ok
    /\ mpc' = "init_cam1"
    /\ UNCHANGED <<gpio_events, camera1, camera2, display, dispFrames, is_recording,
                   out, stop_event, sinks, stitched_frame, captured, tpc, toggles,
                   recWrites, termLog, arrayCalls, window>>

setup_gpio == SetupGpio(BOOLEAN)

setup_gpio_unavailable == SetupGpio({FALSE})

\* init_cameras, camera 1: Picamera2(0) may raise (camera1 stays None),
\* configure/start may raise (camera1 holds the opened device), or it starts.
\* An exception goes through __init__'s re-raise to main's `return`.
InitCamera1 ==
    /\ mpc = "init_cam1"
    /\ \E outcome \in {"None", "open", "started"} :
          /\ camera1' = outcome
          /\ mpc' = IF outcome = "started" THEN "init_cam2" ELSE "returned"
    /\ UNCHANGED <<gpio_available, gpio_events, camera2, display, dispFrames,
                   is_recording, out, stop_event, sinks, stitched_frame, captured,
                   tpc, toggles, recWrites, termLog, arrayCalls, window>>

\* init_cameras, camera 2: same outcomes; nothing in the failure path
\* touches camera1.
InitCamera2 ==
    /\ mpc = "init_cam2"
    /\ \E outcome \in {"None", "open", "started"} :
          /\ camera2' = outcome
          /\ mpc' = IF outcome = "started" THEN "open_display" ELSE "returned"
    /\ UNCHANGED <<gpio_available, gpio_events, camera1, display, dispFrames,
                   is_recording, out, stop_event, sinks, stitched_frame, captured,
                   tpc, toggles, recWrites, termLog, arrayCalls, window>>

\* os.pipe() and ffplay_display(): subprocess.Popen may raise (ffplay cannot
\* be launched); the call is outside any try, so the exception leaves main().
ffplay_display ==
    /\ mpc = "open_display"
    /\ \E ok \in BOOLEAN :
          /\ display' = IF ok THEN "open" ELSE "none"
          /\ mpc' = IF ok THEN "init_globals" ELSE "crashed"
    /\ UNCHANGED <<gpio_available, gpio_events, camera1, camera2, dispFrames,
                   is_recording, out, stop_event, sinks, stitched_frame, captured,
                   tpc, toggles, recWrites, termLog, arrayCalls, window>>

\* out = None; is_recording = False; stop_event = threading.Event()
InitGlobals ==
    /\ mpc = "init_globals"
    /\ out' = None
    /\ is_recording' = FALSE
    /\ stop_event' = FALSE
    /\ mpc' = "add_events"
    /\ UNCHANGED <<gpio_available, gpio_events, camera1, camera2, display, dispFrames,
                   sinks, stitched_frame, captured, tpc, toggles, recWrites, termLog,
                   arrayCalls, window>>

\* if gpio_available: GPIO.add_event_detect(...) for both buttons
AddEventDetect ==
    /\ mpc = "add_events"
    /\ gpio_events' = gpio_available
    /\ mpc' = "start_thread"
    /\ UNCHANGED <<gpio_available, camera1, camera2, display, dispFrames, is_recording,
                   out, stop_event, sinks, stitched_frame, captured, tpc, toggles,
                   recWrites, termLog, arrayCalls, window>>

\* input_thread = threading.Thread(target=keyboard_input, ...); input_thread.start()
StartInputThread ==
    /\ mpc = "start_thread"
    /\ tpc' = [tpc EXCEPT !["kb"] = "while"]
    /\ mpc' = "while"
    /\ UNCHANGED <<gpio_available, gpio_events, camera1, camera2, display, dispFrames,
                   is_recording, out, stop_event, sinks, stitched_frame, captured,
                   toggles, recWrites, termLog, arrayCalls, window>>

\* ---------------------------------------------------------------------
\* cv2.VideoWriter, as the program uses it
\* ---------------------------------------------------------------------

\* A VideoWriter object: ok is isOpened() after construction (the constructor
\* does not raise when the file cannot be opened), releases counts release()
\* calls, frames is what the container holds, path is the output file
\* (stereo_output_<timestamp>.mp4, represented by the timestamp's second).
NewSink(ok, path) == [ok |-> ok, releases |-> 0, frames |-> <<>>, path |-> path]

IsOpen(s) == s.ok /\ s.releases = 0

\* VideoWriter.write: appends to an open writer, silently does nothing otherwise.
VideoWriter_write(s, f) ==
    IF IsOpen(s) THEN [s EXCEPT !.frames = Append(@, f)] ELSE s

\* VideoWriter.release
VideoWriter_release(s) == [s EXCEPT !.releases = @ + 1]

\* ---------------------------------------------------------------------
\* The capture loop of main()
\* ---------------------------------------------------------------------

\* while not stop_event.is_set():
LoopTest ==
    /\ mpc = "while"
    /\ mpc' = IF stop_event THEN "finally_stop" ELSE "capture"
    /\ UNCHANGED <<gpio_available, gpio_events, camera1, camera2, display, dispFrames,
                   is_recording, out, stop_event, sinks, stitched_frame, captured,
                   tpc, toggles, recWrites, termLog, arrayCalls, window>>

\* StereoCamera.capture_stereo's guard
CamerasMissing == camera1 = "None" \/ camera2 = "None"

\* frame1, frame2 = stereo_cam.capture_stereo(); stitched_frame = np.hstack(...)
\* capture_stereo raises when a camera is None, before any capture_array
\* call; capture_array may raise too.
capture_stereo ==
    /\ mpc = "capture"
    /\ captured < MaxFrames
    /\ arrayCalls' = IF CamerasMissing THEN arrayCalls ELSE arrayCalls + 1
    /\ \E ok \in BOOLEAN :
          IF ok /\ ~CamerasMissing
          THEN /\ captured' = captured + 1
               /\ stitched_frame' = [id |-> captured + 1, rec |-> FALSE]
               /\ mpc' = "if_rec"
          ELSE /\ mpc' = "except"
               /\ UNCHANGED <<captured, stitched_frame>>
    /\ UNCHANGED <<gpio_available, gpio_events, camera1, camera2, display, dispFrames,
                   is_recording, out, stop_event, sinks, tpc, toggles, recWrites,
                   termLog, window>>

\* if is_recording and ...: the read of is_recording
IfRecording ==
    /\ mpc = "if_rec"
    /\ mpc' = IF is_recording THEN "if_out" ELSE "annotate"
    /\ UNCHANGED <<gpio_available, gpio_events, camera1, camera2, display, dispFrames,
                   is_recording, out, stop_event, sinks, stitched_frame, captured,
                   tpc, toggles, recWrites, termLog, arrayCalls, window>>

\* ... and out is not None: the read of out
IfOutNotNone ==
    /\ mpc = "if_out"
    /\ mpc' = IF out # None THEN "rec_write" ELSE "annotate"
    /\ UNCHANGED <<gpio_available, gpio_events, camera1, camera2, display, dispFrames,
                   is_recording, out, stop_event, sinks, stitched_frame, captured,
                   tpc, toggles, recWrites, termLog, arrayCalls, window>>

\* out.write(cv2.cvtColor(stitched_frame, ...)): out is read again; None has
\* no write (AttributeError); the write itself may raise cv2.error.
RecordWrite ==
    /\ mpc = "rec_write"
    /\ \E ok \in BOOLEAN :
          IF ok /\ out # None
          THEN /\ sinks' = [sinks EXCEPT ![out] = VideoWriter_write(@, stitched_frame)]
               /\ recWrites' = recWrites + 1
               /\ mpc' = "annotate"
          ELSE /\ mpc' = "except"
               /\ UNCHANGED <<sinks, recWrites>>
    /\ UNCHANGED <<gpio_available, gpio_events, camera1, camera2, display, dispFrames,
                   is_recording, out, stop_event, stitched_frame, captured, tpc,
                   toggles, termLog, arrayCalls, window>>

\* if is_recording: cv2.putText(stitched_frame, "REC", ...)
Annotate ==
    /\ mpc = "annotate"
    /\ stitched_frame' = IF is_recording THEN [stitched_frame EXCEPT !.rec = TRUE]
                         ELSE stitched_frame
    /\ mpc' = "disp_write"
    /\ UNCHANGED <<gpio_available, gpio_events, camera1, camera2, display, dispFrames,
                   is_recording, out, stop_event, sinks, captured, tpc, toggles,
                   recWrites, termLog, arrayCalls, window>>

\* Mutant of DisplayWrite: the pipe write sits inside `if is_recording:`.
DisplayWrite_OnlyWhenRecording ==
    /\ mpc = "disp_write"
    /\ \E ok \in BOOLEAN :
          IF ok
          THEN /\ dispFrames' = IF is_recording THEN Append(dispFrames, stitched_frame)
                                ELSE dispFrames
               /\ mpc' = "while"
          ELSE /\ mpc' = "except"
               /\ UNCHANGED dispFrames
    /\ UNCHANGED <<gpio_available, gpio_events, camera1, camera2, display,
                   is_recording, out, stop_event, sinks, stitched_frame, captured,
                   tpc, toggles, recWrites, termLog, arrayCalls, window>>

\* os.write(pipe_w, ...): may raise (BrokenPipeError when ffplay has exited)
DisplayWrite ==
    /\ mpc = "disp_write"
    /\ \E ok \in BOOLEAN :
          IF ok
          THEN /\ dispFrames' = Append(dispFrames, stitched_frame)
               /\ mpc' = "while"
          ELSE /\ mpc' = "except"
               /\ UNCHANGED dispFrames
    /\ UNCHANGED <<gpio_available, gpio_events, camera1, camera2, display,
                   is_recording, out, stop_event, sinks, stitched_frame, captured,
                   tpc, toggles, recWrites, termLog, arrayCalls, window>>

\* except Exception as e: print(...)
ExceptHandler ==
    /\ mpc = "except"
    /\ mpc' = "finally_stop"
    /\ UNCHANGED <<gpio_available, gpio_events, camera1, camera2, display, dispFrames,
                   is_recording, out, stop_event, sinks, stitched_frame, captured,
                   tpc, toggles, recWrites, termLog, arrayCalls, window>>

\* ---------------------------------------------------------------------
\* The finally block of main()
\* ---------------------------------------------------------------------

\* stop_event.set()
FinallySetStop ==
    /\ mpc = "finally_stop"
    /\ stop_event' = TRUE
    /\ termLog' = Append(termLog, "stop")
    /\ mpc' = "join"
    /\ UNCHANGED <<gpio_available, gpio_events, camera1, camera2, display, dispFrames,
                   is_recording, out, sinks, stitched_frame, captured, tpc, toggles,
                   recWrites, arrayCalls, window>>

\* input_thread.join(): returns once the keyboard thread has ended
JoinInputThread ==
    /\ mpc = "join"
    /\ tpc["kb"] \in {"done", "dead"}
    /\ termLog' = Append(termLog, "join")
    /\ mpc' = "fin_if_out"
    /\ UNCHANGED <<gpio_available, gpio_events, camera1, camera2, display, dispFrames,
                   is_recording, out, stop_event, sinks, stitched_frame, captured,
                   tpc, toggles, recWrites, arrayCalls, window>>

\* if out is not None:
FinallyIfOut ==
    /\ mpc = "fin_if_out"
    /\ mpc' = IF out # None THEN "fin_release" ELSE "cam_close"
    /\ UNCHANGED <<gpio_available, gpio_events, camera1, camera2, display, dispFrames,
                   is_recording, out, stop_event, sinks, stitched_frame, captured,
                   tpc, toggles, recWrites, termLog, arrayCalls, window>>

\* out.release(): out is read again; on None the AttributeError leaves the
\* finally block and main().
FinallyRelease ==
    /\ mpc = "fin_release"
    /\ IF out # None
       THEN /\ sinks' = [sinks EXCEPT ![out] = VideoWriter_release(@)]
            /\ termLog' = Append(termLog, "rec_close")
            /\ mpc' = "cam_close"
       ELSE /\ mpc' = "crashed"
            /\ UNCHANGED <<sinks, termLog>>
    /\ UNCHANGED <<gpio_available, gpio_events, camera1, camera2, display, dispFrames,
                   is_recording, out, stop_event, stitched_frame, captured, tpc,
                   toggles, recWrites, arrayCalls, window>>

\* Picamera2.stop() on a camera attribute that is set
StopCamera(c) == IF c = "None" THEN c ELSE "stopped"

\* stereo_cam.close()
StereoCamera_close ==
    /\ mpc = "cam_close"
    /\ camera1' = StopCamera(camera1)
    /\ camera2' = StopCamera(camera2)
    /\ termLog' = Append(termLog, "cam_close")
    /\ mpc' = "disp_close"
    /\ UNCHANGED <<gpio_available, gpio_events, display, dispFrames, is_recording,
                   out, stop_event, sinks, stitched_frame, captured, tpc, toggles,
                   recWrites, arrayCalls, window>>

\* ffplay_process.terminate(); os.close(pipe_w)
CloseDisplay ==
    /\ mpc = "disp_close"
    /\ display' = "closed"
    /\ termLog' = Append(termLog, "disp_close")
    /\ mpc' = "gpio_cleanup"
    /\ UNCHANGED <<gpio_available, gpio_events, camera1, camera2, dispFrames,
                   is_recording, out, stop_event, sinks, stitched_frame, captured,
                   tpc, toggles, recWrites, arrayCalls, window>>

\* if gpio_available: GPIO.cleanup(); print("Program ended"); main() returns
GpioCleanup ==
    /\ mpc = "gpio_cleanup"
    /\ gpio_events' = FALSE
    /\ termLog' = IF gpio_available THEN Append(termLog, "gpio_release") ELSE termLog
    /\ mpc' = "done"
    /\ UNCHANGED <<gpio_available, camera1, camera2, display, dispFrames, is_recording,
                   out, stop_event, sinks, stitched_frame, captured, tpc, toggles,
                   recWrites, arrayCalls, window>>

\* if __name__ == "__main__": main() -- the interpreter's exit status: 1
\* after an uncaught exception, 0 after main() returns.
ExitCode == IF mpc = "crashed" THEN 1 ELSE 0

Exited == mpc \in {"returned", "done", "crashed"}

\* ---------------------------------------------------------------------
\* toggle_recording(), run by thread t (keyboard thread or button callback)
\* ---------------------------------------------------------------------

\* No step below runs once the process has exited (~Exited).

\* Where toggle_recording returns to in its caller.
Return(t) == IF t = "kb" THEN "while" ELSE "idle"

\* Where an exception raised inside toggle_recording leaves its caller: the
\* keyboard thread dies, the callback is abandoned.
Raise(t) == IF t = "kb" THEN "dead" ELSE "idle"

\* if not is_recording:
ToggleTest(t) ==
    /\ ~Exited
    /\ tpc[t] = "t_test"
    /\ tpc' = [tpc EXCEPT ![t] = IF is_recording THEN "t_clear" ELSE "t_open"]
    /\ UNCHANGED <<mpc, gpio_available, gpio_events, camera1, camera2, display,
                   dispFrames, is_recording, out, stop_event, sinks, stitched_frame,
                   captured, toggles, recWrites, termLog, arrayCalls, window>>

\* The second time.strftime last returned (0 before the first session)
LastTimestamp == IF sinks = <<>> THEN 0 ELSE sinks[Len(sinks)].path

\* time.strftime("%Y%m%d-%H%M%S"): the wall clock at one-second resolution;
\* since the previous session started it has stayed in the same second or
\* moved on to a later one.
Timestamps == IF sinks = <<>> THEN {0} ELSE {LastTimestamp, LastTimestamp + 1}

\* output_filename = os.path.join(recordings_dir, f'stereo_output_{timestamp}.mp4')
OutputFilename(timestamp) == timestamp

\* timestamp = time.strftime(...); output_filename = ...;
\* out = cv2.VideoWriter(output_filename, fourcc, framerate, ...): the
\* writer may or may not have opened its file.
ToggleOpen(t) ==
    /\ ~Exited
    /\ tpc[t] = "t_open"
    /\ \E ok \in BOOLEAN, timestamp \in Timestamps :
          sinks' = Append(sinks, NewSink(ok, OutputFilename(timestamp)))
    /\ out' = Len(sinks) + 1
    /\ tpc' = [tpc EXCEPT ![t] = "t_setrec"]
    /\ UNCHANGED <<mpc, gpio_available, gpio_events, camera1, camera2, display,
                   dispFrames, is_recording, stop_event, stitched_frame, captured,
                   toggles, recWrites, termLog, arrayCalls, window>>

\* is_recording = True
ToggleSetRecording(t) ==
    /\ ~Exited
    /\ tpc[t] = "t_setrec"
    /\ is_recording' = TRUE
    /\ tpc' = [tpc EXCEPT ![t] = Return(t)]
    /\ UNCHANGED <<mpc, gpio_available, gpio_events, camera1, camera2, display,
                   dispFrames, out, stop_event, sinks, stitched_frame, captured,
                   toggles, recWrites, termLog, arrayCalls, window>>

\* else: is_recording = False
ToggleClear(t) ==
    /\ ~Exited
    /\ tpc[t] = "t_clear"
    /\ is_recording' = FALSE
    /\ tpc' = [tpc EXCEPT ![t] = "t_release"]
    /\ UNCHANGED <<mpc, gpio_available, gpio_events, camera1, camera2, display,
                   dispFrames, out, stop_event, sinks, stitched_frame, captured,
                   toggles, recWrites, termLog, arrayCalls, window>>

\* Mutant of ToggleRelease: the toggle-off path forgets out.release().
ToggleRelease_Forgotten(t) ==
    /\ ~Exited
    /\ tpc[t] = "t_release"
    /\ tpc' = [tpc EXCEPT ![t] = IF out # None THEN "t_none" ELSE Raise(t)]
    /\ UNCHANGED <<mpc, gpio_available, gpio_events, camera1, camera2, display,
                   dispFrames, is_recording, out, stop_event, sinks, stitched_frame,
                   captured, toggles, recWrites, termLog, arrayCalls, window>>

\* out.release(): AttributeError when out is None
ToggleRelease(t) ==
    /\ ~Exited
    /\ tpc[t] = "t_release"
    /\ IF out # None
       THEN /\ sinks' = [sinks EXCEPT ![out] = VideoWriter_release(@)]
            /\ tpc' = [tpc EXCEPT ![t] = "t_none"]
       ELSE /\ tpc' = [tpc EXCEPT ![t] = Raise(t)]
            /\ UNCHANGED sinks
    /\ UNCHANGED <<mpc, gpio_available, gpio_events, camera1, camera2, display,
                   dispFrames, is_recording, out, stop_event, stitched_frame,
                   captured, toggles, recWrites, termLog, arrayCalls, window>>

\* out = None
ToggleSetNone(t) ==
    /\ ~Exited
    /\ tpc[t] = "t_none"
    /\ out' = None
    /\ tpc' = [tpc EXCEPT ![t] = Return(t)]
    /\ UNCHANGED <<mpc, gpio_available, gpio_events, camera1, camera2, display,
                   dispFrames, is_recording, stop_event, sinks, stitched_frame,
                   captured, toggles, recWrites, termLog, arrayCalls, window>>

toggle_recording(t) ==
    \/ ToggleTest(t)
    \/ ToggleOpen(t)
    \/ ToggleSetRecording(t)
    \/ ToggleClear(t)
    \/ ToggleRelease(t)
    \/ ToggleSetNone(t)

\* ---------------------------------------------------------------------
\* keyboard_input(stop_event), the listener thread
\* ---------------------------------------------------------------------

\* while not stop_event.is_set():
KeyboardLoopTest ==
    /\ tpc["kb"] = "while"
    /\ tpc' = [tpc EXCEPT !["kb"] = IF stop_event THEN "done" ELSE "select"]
    /\ UNCHANGED <<mpc, gpio_available, gpio_events, camera1, camera2, display,
                   dispFrames, is_recording, out, stop_event, sinks, stitched_frame,
                   captured, toggles, recWrites, termLog, arrayCalls, window>>

\* select with timeout 0, then read(1): no key or another key goes back to
\* the loop test, r calls toggle_recording, q sets stop_event and breaks.
KeyboardSelect ==
    /\ tpc["kb"] = "select"
    /\ \E key \in {"", "r", "q"} :
          \/ /\ key = ""
             /\ tpc' = [tpc EXCEPT !["kb"] = "while"]
             /\ UNCHANGED <<stop_event, toggles>>
          \/ /\ key = "r"
             /\ toggles < MaxToggles
             /\ toggles' = toggles + 1
             /\ tpc' = [tpc EXCEPT !["kb"] = "t_test"]
             /\ UNCHANGED stop_event
          \/ /\ key = "q"
             /\ stop_event' = TRUE
             /\ tpc' = [tpc EXCEPT !["kb"] = "done"]
             /\ UNCHANGED toggles
    /\ UNCHANGED <<mpc, gpio_available, gpio_events, camera1, camera2, display,
                   dispFrames, is_recording, out, sinks, stitched_frame, captured,
                   recWrites, termLog, arrayCalls, window>>

keyboard_input ==
    \/ KeyboardLoopTest
    \/ KeyboardSelect
    \/ toggle_recording("kb")

\* ---------------------------------------------------------------------
\* button_callback(channel), called by RPi.GPIO on its own thread, one
\* callback at a time, while edge detection is registered
\* ---------------------------------------------------------------------

\* The bouncetime registered for a button line by GPIO.add_event_detect
Bouncetime_Omitted(channel) == 0

Bouncetime(channel) == BOUNCETIME

\* RPi.GPIO drops a falling edge that arrives within the line's bouncetime
\* of the last edge it accepted.
Debounced(channel) == Bouncetime(channel) > 0 /\ window[channel] > 0

\* A falling edge on a button line that RPi.GPIO accepts: it opens the
\* line's bouncetime window and calls button_callback(channel).
button_callback ==
    /\ ~Exited
    /\ gpio_events
    /\ tpc["btn"] = "idle"
    /\ \E channel \in Channels :
          /\ ~Debounced(channel)
          /\ window' = [window EXCEPT ![channel] = @ + 1]
          /\ \/ /\ channel = RECORD_BUTTON_PIN
                /\ toggles < MaxToggles
                /\ toggles' = toggles + 1
                /\ tpc' = [tpc EXCEPT !["btn"] = "t_test"]
                /\ UNCHANGED stop_event
             \/ /\ channel = QUIT_BUTTON_PIN
                /\ stop_event' = TRUE
                /\ UNCHANGED <<tpc, toggles>>
    /\ UNCHANGED <<mpc, gpio_available, gpio_events, camera1, camera2, display,
                   dispFrames, is_recording, out, sinks, stitched_frame, captured,
                   recWrites, termLog, arrayCalls>>

\* BOUNCETIME ms have passed since the last accepted edge on a line: its
\* window closes.
BouncetimeElapsed ==
    /\ ~Exited
    /\ \E channel \in Channels :
          /\ window[channel] > 0
          /\ window' = [window EXCEPT ![channel] = 0]
    /\ UNCHANGED <<mpc, gpio_available, gpio_events, camera1, camera2, display,
                   dispFrames, is_recording, out, stop_event, sinks, stitched_frame,
                   captured, tpc, toggles, recWrites, termLog, arrayCalls>>

button_thread ==
    \/ button_callback
    \/ BouncetimeElapsed
    \/ toggle_recording("btn")

\* ---------------------------------------------------------------------
\* The program
\* ---------------------------------------------------------------------

\* main() after setup_gpio()
main ==
    \/ InitCamera1
    \/ InitCamera2
    \/ ffplay_display
    \/ InitGlobals
    \/ AddEventDetect
    \/ StartInputThread
    \/ LoopTest
    \/ capture_stereo
    \/ IfRecording
    \/ IfOutNotNone
    \/ RecordWrite
    \/ Annotate
    \/ DisplayWrite
    \/ ExceptHandler
    \/ FinallySetStop
    \/ JoinInputThread
    \/ FinallyIfOut
    \/ FinallyRelease
    \/ StereoCamera_close
    \/ CloseDisplay
    \/ GpioCleanup

Next ==
    \/ setup_gpio
    \/ main
    \/ keyboard_input
    \/ button_thread

Spec == Init /\ [][Next]_vars

\* The program on a machine where RPi.GPIO is not available: keyboard only,
\* so ToggleRecording commands are processed one after the other.
NextKeyboardOnly ==
    \/ setup_gpio_unavailable
    \/ main
    \/ keyboard_input

SpecKeyboardOnly == Init /\ [][NextKeyboardOnly]_vars

\* ---------------------------------------------------------------------
\* The StereoCamera class on its own: a caller that constructs one
\* instance and then calls capture_stereo() and close() in any order
\* ---------------------------------------------------------------------

\* StereoCamera(...) has returned, so the caller holds the instance (when
\* __init__ raises, no reference to the instance reaches the caller).
Constructed == mpc \notin {"setup_gpio", "init_cam1", "init_cam2", "returned"}

BothStarted == camera1 = "started" /\ camera2 = "started"

\* StereoCamera.capture_stereo(), the whole method: RuntimeError from the
\* guard when a camera attribute is None; otherwise camera1.capture_array()
\* and camera2.capture_array() are called, which return frames only from
\* running cameras.
StereoCamera_capture_stereo ==
    /\ Constructed
    /\ arrayCalls < MaxCalls
    /\ IF CamerasMissing
       THEN /\ mpc' = "RuntimeError"
            /\ UNCHANGED <<arrayCalls, captured, stitched_frame>>
       ELSE /\ arrayCalls' = arrayCalls + 1
            /\ \E ok \in BOOLEAN :
                  IF ok /\ BothStarted
                  THEN /\ captured' = captured + 1
                       /\ stitched_frame' = [id |-> captured + 1, rec |-> FALSE]
                       /\ mpc' = "frames"
                  ELSE /\ mpc' = "driver_error"
                       /\ UNCHANGED <<captured, stitched_frame>>
    /\ UNCHANGED <<gpio_available, gpio_events, camera1, camera2, display, dispFrames,
                   is_recording, out, stop_event, sinks, tpc, toggles, recWrites,
                   termLog, window>>

\* StereoCamera.close(), called by that caller
StereoCamera_close_call ==
    /\ Constructed
    /\ Len(termLog) < MaxCalls
    /\ camera1' = StopCamera(camera1)
    /\ camera2' = StopCamera(camera2)
    /\ termLog' = Append(termLog, "cam_close")
    /\ mpc' = "closed"
    /\ UNCHANGED <<gpio_available, gpio_events, display, dispFrames, is_recording,
                   out, stop_event, sinks, stitched_frame, captured, tpc, toggles,
                   recWrites, arrayCalls, window>>

NextStereoCamera ==
    \/ setup_gpio
    \/ InitCamera1
    \/ InitCamera2
    \/ StereoCamera_capture_stereo
    \/ StereoCamera_close_call

SpecStereoCamera == Init /\ [][NextStereoCamera]_vars

\* ---------------------------------------------------------------------
\* toggle_recording() on its own: one caller that issues ToggleRecording
\* commands one after the other, starting from Idle
\* ---------------------------------------------------------------------

\* The caller (the keyboard thread's position stands for it) calls
\* toggle_recording() when the previous call has returned.
CallToggleRecording ==
    /\ tpc["kb"] \in {"unstarted", "while"}
    /\ is_recording \/ Len(sinks) < MaxSessions
    /\ tpc' = [tpc EXCEPT !["kb"] = "t_test"]
    /\ toggles' = toggles + 1
    /\ UNCHANGED <<mpc, gpio_available, gpio_events, camera1, camera2, display,
                   dispFrames, is_recording, out, stop_event, sinks, stitched_frame,
                   captured, recWrites, termLog, arrayCalls, window>>

NextToggleRecording ==
    \/ CallToggleRecording
    \/ toggle_recording("kb")

SpecToggleRecording == Init /\ [][NextToggleRecording]_vars

\* ---------------------------------------------------------------------
\* Properties
\* ---------------------------------------------------------------------

Range(q) == {q[i] : i \in DOMAIN q}

\* Every frame any VideoWriter holds
RecordedFrames == UNION {Range(sinks[i].frames) : i \in DOMAIN sinks}

\* The order the specification gives for the termination sequence
SpecOrder == <<"stop", "join", "rec_close", "disp_close", "cam_close", "gpio_release">>

\* C1: whenever recording is active the REC annotation is applied before
\* either sink consumes the frame, so every recorded frame bears the marker
\* and is the buffer the display receives.
C1_RecordedFramesAnnotated ==
    \A f \in RecordedFrames : f.rec

\* C2: whenever the loop has exited and main() has run its finally block,
\* the steps ran in the order stop, join, recording sink, display sink,
\* cameras, GPIO (a step with nothing to close may be absent); in
\* particular the display sink is closed before the cameras.
C2_TerminationOrder ==
    mpc = "done" =>
        /\ {"stop", "join", "disp_close", "cam_close"} \subseteq Range(termLog)
        /\ termLog = SelectSeq(SpecOrder, LAMBDA e : e \in Range(termLog))

\* C3: when main() has finished after the loop ran, no VideoWriter has been
\* released twice and every one that opened its file has been released
\* exactly once, so none is left open.
C3_SinksReleasedOnce ==
    mpc = "done" =>
        \A i \in DOMAIN sinks :
            /\ sinks[i].releases <= 1
            /\ sinks[i].ok => sinks[i].releases = 1

\* The keyboard thread is between two commands (not inside toggle_recording)
KeyboardAtRest == tpc["kb"] \in {"unstarted", "while", "select", "done"}

ReleasedSinks == {i \in DOMAIN sinks : sinks[i].releases >= 1}

\* C4: after any sequence of toggles processed one after the other (and
\* before the finally block releases anything), no sink has been released
\* twice, and the number of sinks opened equals the number released, plus
\* one exactly when the controller is Recording, which then holds the newest
\* sink unreleased; in Idle it holds none.
C4_TogglePairing ==
    (KeyboardAtRest /\ "rec_close" \notin Range(termLog)) =>
        /\ \A i \in DOMAIN sinks : sinks[i].releases <= 1
        /\ Len(sinks) = Cardinality(ReleasedSinks) + (IF is_recording THEN 1 ELSE 0)
        /\ is_recording => (out = Len(sinks) /\ sinks[out].releases = 0)
        /\ ~is_recording => out = None

\* C4 witness: two toggles from Idle have been processed: one sink opened,
\* the same sink released once, controller back in Idle.
C4_Witness ==
    /\ KeyboardAtRest
    /\ toggles = 2
    /\ Len(sinks) = 1
    /\ sinks[1].releases = 1
    /\ ~is_recording
    /\ out = None

\* C5: while the controller is Recording, a frame the loop hands to
\* out.write is appended to the recording sink (exactly once, after the
\* frames written before it).
C5_FramesForwarded ==
    [][(mpc = "rec_write" /\ mpc' = "annotate" /\ is_recording)
          => sinks'[out].frames = Append(sinks[out].frames, stitched_frame)]_vars

\* C6: every completed iteration has made exactly one display write, in
\* capture order (iteration i wrote frame i), and at most one recording
\* write; with no ToggleRecording command issued there is no recording
\* write at all and no displayed frame is marked.
C6_OneDisplayWritePerIteration ==
    /\ mpc = "while" => Len(dispFrames) = captured
    /\ Len(dispFrames) \in {captured - 1, captured}
    /\ \A i \in DOMAIN dispFrames : dispFrames[i].id = i
    /\ recWrites <= captured
    /\ toggles = 0 =>
          /\ recWrites = 0
          /\ RecordedFrames = {}
          /\ \A i \in DOMAIN dispFrames : ~dispFrames[i].rec

\* C6 witness: two iterations completed with recording off and no control
\* input: two display writes, no recording write.
C6_Witness ==
    /\ mpc = "while"
    /\ toggles = 0
    /\ captured = 2
    /\ Len(dispFrames) = 2
    /\ recWrites = 0

\* C7: once the stop flag is set the program does not end before the
\* termination sequence is complete: main() never leaves the finally block
\* through an exception.
C7_StopLeadsToTermination ==
    stop_event => mpc # "crashed"

\* C8: a camera initialization failure ends the program before the capture
\* loop with a non-zero exit code; a completed run exits with code 0.
C8_ExitCodes ==
    /\ mpc = "returned" => (captured = 0 /\ ExitCode # 0)
    /\ mpc = "done" => ExitCode = 0

\* C9: when StereoCamera construction has failed, the first camera is not
\* left started.
C9_NoCameraLeftStarted ==
    mpc = "returned" => camera1 # "started"

\* C10: a toggle moves the controller from Idle to Recording only when the
\* video sink it holds opened successfully.
C10_RecordingOnlyIfSinkOpened ==
    [][(~is_recording /\ is_recording') => (out # None /\ sinks[out].ok)]_vars

\* C11: when the display sink cannot be opened at startup, the program
\* still goes through the termination sequence: it does not end with a
\* camera left started.
C11_DisplayOpenFailureReleases ==
    (Exited /\ display = "none" /\ mpc # "returned") =>
        (camera1 = "stopped" /\ camera2 = "stopped")

\* C12: an out.write call that fails on a writer held in out does not end
\* the capture loop: the iteration goes on to annotate and display.
C12_RecordWriteFailureTolerated ==
    [][(mpc = "rec_write" /\ out # None /\ mpc' # mpc) => mpc' = "annotate"]_vars

\* Writers that have been constructed and not released
UnreleasedSinks == {i \in DOMAIN sinks : sinks[i].releases = 0}

\* C16: at every state of the running loop (before the finally block
\* releases anything) at most one recording sink is unreleased, and
\* is_recording implies that out refers to a sink that has not been released.
C16_SingleOpenSink ==
    "rec_close" \notin Range(termLog) =>
        /\ Cardinality(UnreleasedSinks) <= 1
        /\ is_recording => (out # None /\ sinks[out].releases = 0)

\* C17: whenever the loop executes out.write, out holds a writer that has
\* not been released (never None, never a released writer).
C17_WriteTargetsOpenSink ==
    [][(mpc = "rec_write" /\ mpc' # mpc) => (out # None /\ sinks[out].releases = 0)]_vars

\* C18: with every writer opened successfully, a frame sent to the display
\* carries the REC marker if and only if that iteration's frame was recorded.
C18_MarkerIffRecorded ==
    (\A i \in DOMAIN sinks : sinks[i].ok) =>
        \A j \in DOMAIN dispFrames :
            dispFrames[j].rec <=> (\E f \in RecordedFrames : f.id = dispFrames[j].id)

\* C15: capture_stereo called on an instance whose cameras are not both
\* running (initialization did not succeed, or close() was called) fails
\* with the guard's RuntimeError, returns no frame and makes no
\* capture_array call.
C15_CaptureRejectedWhenNotOpen ==
    [][(Constructed /\ ~BothStarted /\ mpc' \in {"RuntimeError", "frames", "driver_error"}
           /\ <<mpc, arrayCalls>> # <<mpc', arrayCalls'>>)
          => (mpc' = "RuntimeError" /\ arrayCalls' = arrayCalls /\ captured' = captured)]_vars

\* C13: any two recording sessions of one run have distinct output files.
C13_DistinctOutputPaths ==
    \A i, j \in DOMAIN sinks : i # j => sinks[i].path # sinks[j].path

\* C14: within one bouncetime window of a button line at most one callback
\* runs for that line, so falling edges less than 300 ms apart cause one
\* ControlState mutation.
C14_OneCallbackPerWindow ==
    \A channel \in Channels : window[channel] <= 1

\* C14 witness: a record-button press has been accepted and its toggle has
\* completed while the line's window is still open (a second edge arriving
\* now is dropped): the recording state was toggled once.
C14_Witness ==
    /\ window[RECORD_BUTTON_PIN] = 1
    /\ tpc["btn"] = "idle"
    /\ toggles = 1
    /\ is_recording
====
